---- MODULE Spec2Model ----
(***************************************************************************)
(* OAuth token management of the eBay API backend server (src/server.js).  *)
(*                                                                         *)
(* getOAuthToken is an async function over two module-level variables,     *)
(* cachedToken and tokenExpiry.  Node runs each synchronous stretch of it  *)
(* atomically; the only suspension point is the await on axios.post, so a  *)
(* call is two steps: entry (lines 46-59) and the continuation after the   *)
(* await (lines 73-77 on fulfilment, lines 79-82 on rejection).  Several   *)
(* calls may be suspended at the await at once.                            *)
(*                                                                         *)
(* Time is in milliseconds, as Date.now() gives it.  JavaScript values are *)
(* tagged records so that null, undefined, NaN, numbers and strings stay   *)
(* distinct; access tokens are the non-empty strings "tok-<n>", written    *)
(* Str(n).                                                                 *)
(*                                                                         *)
(* When the promise of a call settles, the awaiting caller's continuation  *)
(* is a microtask: it runs before any other I/O callback or timer.  A call *)
(* in pc "returned" or "threw" is in that instant, so no other step is     *)
(* taken until CallerResumes; in such a state now is the instant of return *)
(* and the cache fields are the ones the call left.  The same holds for a  *)
(* handler that has just sent its response (stage "answered").             *)
(***************************************************************************)
EXTENDS Integers, FiniteSets, Sequences, TLC

(* ------------------------------ bounds --------------------------------- *)
NumCallers == 2
MaxRequests == 2
StartMs == 1000000
TickMs == 100000
MaxTicks == 2
MaxImages == 3
Lifetimes == {300, 500}

Callers == 1..NumCallers

(* -------------------------- JavaScript values -------------------------- *)
Null == [type |-> "null", n |-> 0]
Undefined == [type |-> "undefined", n |-> 0]
NaN == [type |-> "nan", n |-> 0]
Num(k) == [type |-> "number", n |-> k]
Str(k) == [type |-> "string", n |-> k]
EmptyStr == [type |-> "empty_string", n |-> 0]
Arr(len) == [type |-> "array", n |-> len]

Truthy(v) ==
  CASE v.type = "null" -> FALSE
    [] v.type = "undefined" -> FALSE
    [] v.type = "nan" -> FALSE
    [] v.type = "number" -> v.n # 0
    [] v.type = "string" -> TRUE
    [] v.type = "empty_string" -> FALSE
    [] OTHER -> TRUE

ToNumber(v) ==
  CASE v.type = "number" -> v
    [] v.type = "null" -> Num(0)
    [] OTHER -> NaN

JsSub(a, b) ==
  IF ToNumber(a).type = "number" /\ ToNumber(b).type = "number"
  THEN Num(ToNumber(a).n - ToNumber(b).n) ELSE NaN

JsMul(a, b) ==
  IF ToNumber(a).type = "number" /\ ToNumber(b).type = "number"
  THEN Num(ToNumber(a).n * ToNumber(b).n) ELSE NaN

JsAdd(a, b) ==
  IF ToNumber(a).type = "number" /\ ToNumber(b).type = "number"
  THEN Num(ToNumber(a).n + ToNumber(b).n) ELSE NaN

JsLess(a, b) ==
  /\ ToNumber(a).type = "number"
  /\ ToNumber(b).type = "number"
  /\ ToNumber(a).n < ToNumber(b).n

(* ------------------------- program constants --------------------------- *)
MarginSeconds == 300
MsPerSecond == 1000

OAuthError == [type |-> "error", n |-> 0]

ErrorPayload == [type |-> "object", n |-> 0]

UpstreamErrorData(r) ==
  IF r.kind = "non2xx" THEN ErrorPayload ELSE Undefined

ErrorResponseData(e) ==
  IF e.type = "axios_error" THEN ErrorPayload ELSE Undefined

(* --------------------------- upstream answers -------------------------- *)
NoResponse ==
  [kind |-> "none", access_token |-> Undefined, expires_in |-> Undefined,
   issuedAt |-> 0]

AuthResponses(id, t) ==
  [kind : {"2xx"},
   access_token : {Undefined, Str(id)},
   expires_in : {Undefined} \cup {Num(L) : L \in Lifetimes},
   issuedAt : {t}]
  \cup
  [kind : {"non2xx", "network_error"},
   access_token : {Undefined},
   expires_in : {Undefined},
   issuedAt : {t}]

(* ----------------------------- state ----------------------------------- *)
VARIABLES cachedToken, tokenExpiry, now, pc, resp, call, authRequests,
          cachedFrom, failedSince, req, glue

vars == <<cachedToken, tokenExpiry, now, pc, resp, call, authRequests,
          cachedFrom, failedSince, req, glue>>

serverVars == <<req, glue>>

tokenVars == <<cachedToken, tokenExpiry, now, pc, resp, call, authRequests,
               cachedFrom, failedSince>>

(* req[p] is the /api/ebay/current request handled in slot p; glue is the  *)
(* request to one of the endpoints that need no token.                     *)
IdleRequest ==
  [stage |-> "idle", token |-> Undefined, expiry |-> Null, status |-> 0,
   responses |-> 0, upstream |-> 0, outcome |-> "none",
   ebayError |-> Undefined, input |-> Undefined]

IdleGlue ==
  [endpoint |-> "none", stage |-> "idle", status |-> 0, responses |-> 0,
   images |-> <<>>, i |-> 0, results |-> <<>>, inflight |-> 0,
   upstream |-> 0, outcome |-> "none", ebayError |-> Undefined,
   input |-> Undefined]

NoFetch ==
  [written |-> FALSE, t0 |-> 0, issuedAt |-> 0,
   access_token |-> Undefined, expires_in |-> Undefined]

IdleCall ==
  [hit |-> FALSE, sent |-> 0, reqId |-> 0, val |-> Undefined,
   afterFailure |-> FALSE]

NoneSettling ==
  /\ \A q \in Callers : pc[q] \in {"idle", "awaiting"}
  /\ \A q \in Callers : req[q].stage # "answered"
  /\ glue.stage # "answered"

Init ==
  /\ cachedToken = Null
  /\ tokenExpiry = Null
  /\ now = StartMs
  /\ pc = [p \in Callers |-> "idle"]
  /\ resp = [p \in Callers |-> NoResponse]
  /\ call = [p \in Callers |-> IdleCall]
  /\ authRequests = 0
  /\ cachedFrom = NoFetch
  /\ failedSince = FALSE
  /\ req = [p \in Callers |-> IdleRequest]
  /\ glue = IdleGlue

(* ------------------------- getOAuthToken ------------------------------- *)
CacheValidReversed(tok, exp, t) ==
  Truthy(tok) /\ Truthy(exp) /\ JsLess(exp, Num(t))

CacheValidInclusive(tok, exp, t) ==
  Truthy(tok) /\ Truthy(exp) /\ ~JsLess(exp, Num(t))

CacheValid(tok, exp, t) ==
  Truthy(tok) /\ Truthy(exp) /\ JsLess(Num(t), exp)

ComputeExpiryNoMargin(t, expires_in) ==
  JsAdd(Num(t), JsMul(expires_in, Num(MsPerSecond)))

ComputeExpiry(t, expires_in) ==
  JsAdd(Num(t), JsMul(JsSub(expires_in, Num(MarginSeconds)), Num(MsPerSecond)))

GetTokenHit(p) ==
  /\ NoneSettling
  /\ pc[p] = "idle"
  /\ CacheValid(cachedToken, tokenExpiry, now)
  /\ pc' = [pc EXCEPT ![p] = "returned"]
  /\ call' = [call EXCEPT ![p] =
                [IdleCall EXCEPT !.hit = TRUE, !.val = cachedToken,
                                 !.afterFailure = failedSince]]
  /\ UNCHANGED <<cachedToken, tokenExpiry, now, resp, authRequests, cachedFrom,
                 failedSince>>
  /\ UNCHANGED serverVars

GetTokenFetch(p) ==
  /\ NoneSettling
  /\ pc[p] = "idle"
  /\ authRequests < MaxRequests
  /\ ~CacheValid(cachedToken, tokenExpiry, now)
  /\ pc' = [pc EXCEPT ![p] = "awaiting"]
  /\ authRequests' = authRequests + 1
  /\ call' = [call EXCEPT ![p] =
                [IdleCall EXCEPT !.sent = 1, !.reqId = authRequests + 1,
                                 !.afterFailure = failedSince]]
  /\ UNCHANGED <<cachedToken, tokenExpiry, now, resp, cachedFrom, failedSince>>
  /\ UNCHANGED serverVars

UpstreamAnswers(p) ==
  /\ NoneSettling
  /\ pc[p] = "awaiting"
  /\ resp[p] = NoResponse
  /\ \E r \in AuthResponses(call[p].reqId, now) :
       resp' = [resp EXCEPT ![p] = r]
  /\ UNCHANGED <<cachedToken, tokenExpiry, now, pc, call, authRequests, cachedFrom,
                 failedSince>>
  /\ UNCHANGED serverVars

FetchSucceededLocalOnly(p) ==
  /\ NoneSettling
  /\ pc[p] = "awaiting"
  /\ resp[p].kind = "2xx"
  /\ cachedFrom' = [written |-> TRUE, t0 |-> now,
                    issuedAt |-> resp[p].issuedAt,
                    access_token |-> resp[p].access_token,
                    expires_in |-> resp[p].expires_in]
  /\ pc' = [pc EXCEPT ![p] = "returned"]
  /\ call' = [call EXCEPT ![p].val = resp[p].access_token]
  /\ failedSince' = FALSE
  /\ UNCHANGED <<cachedToken, tokenExpiry, now, resp, authRequests>>
  /\ UNCHANGED serverVars

FetchSucceededKeepsToken(p) ==
  /\ NoneSettling
  /\ pc[p] = "awaiting"
  /\ resp[p].kind = "2xx"
  /\ cachedToken' = IF Truthy(cachedToken) THEN cachedToken
                    ELSE resp[p].access_token
  /\ tokenExpiry' = ComputeExpiry(now, resp[p].expires_in)
  /\ cachedFrom' = [written |-> TRUE, t0 |-> now,
                    issuedAt |-> resp[p].issuedAt,
                    access_token |-> resp[p].access_token,
                    expires_in |-> resp[p].expires_in]
  /\ pc' = [pc EXCEPT ![p] = "returned"]
  /\ call' = [call EXCEPT ![p].val = cachedToken']
  /\ failedSince' = FALSE
  /\ UNCHANGED <<now, resp, authRequests>>
  /\ UNCHANGED serverVars

FetchSucceeded(p) ==
  /\ NoneSettling
  /\ pc[p] = "awaiting"
  /\ resp[p].kind = "2xx"
  /\ cachedToken' = resp[p].access_token
  /\ tokenExpiry' = ComputeExpiry(now, resp[p].expires_in)
  /\ cachedFrom' = [written |-> TRUE, t0 |-> now,
                    issuedAt |-> resp[p].issuedAt,
                    access_token |-> resp[p].access_token,
                    expires_in |-> resp[p].expires_in]
  /\ pc' = [pc EXCEPT ![p] = "returned"]
  /\ call' = [call EXCEPT ![p].val = cachedToken']
  /\ failedSince' = FALSE
  /\ UNCHANGED <<now, resp, authRequests>>
  /\ UNCHANGED serverVars

FetchFailedClearsCache(p) ==
  /\ NoneSettling
  /\ pc[p] = "awaiting"
  /\ resp[p].kind \in {"non2xx", "network_error"}
  /\ pc' = [pc EXCEPT ![p] = "threw"]
  /\ call' = [call EXCEPT ![p].val = OAuthError]
  /\ cachedToken' = Null
  /\ tokenExpiry' = Null
  /\ failedSince' = TRUE
  /\ UNCHANGED <<now, resp, authRequests, cachedFrom>>
  /\ UNCHANGED serverVars

FetchFailedPoisons(p) ==
  /\ NoneSettling
  /\ pc[p] = "awaiting"
  /\ resp[p].kind \in {"non2xx", "network_error"}
  /\ pc' = [pc EXCEPT ![p] = "threw"]
  /\ call' = [call EXCEPT ![p].val = OAuthError]
  /\ cachedToken' = Str(0)
  /\ tokenExpiry' = Num(now + MarginSeconds * MsPerSecond)
  /\ failedSince' = TRUE
  /\ UNCHANGED <<now, resp, authRequests, cachedFrom>>
  /\ UNCHANGED serverVars

FetchFailedRetries(p) ==
  /\ NoneSettling
  /\ pc[p] = "awaiting"
  /\ resp[p].kind \in {"non2xx", "network_error"}
  /\ IF authRequests < MaxRequests
     THEN /\ resp' = [resp EXCEPT ![p] = NoResponse]
          /\ authRequests' = authRequests + 1
          /\ call' = [call EXCEPT ![p].sent = @ + 1,
                                  ![p].reqId = authRequests + 1]
          /\ UNCHANGED pc
     ELSE /\ pc' = [pc EXCEPT ![p] = "threw"]
          /\ call' = [call EXCEPT ![p].val = OAuthError]
          /\ UNCHANGED <<resp, authRequests>>
  /\ failedSince' = TRUE
  /\ UNCHANGED <<cachedToken, tokenExpiry, now, cachedFrom>>
  /\ UNCHANGED serverVars

FetchFailed(p) ==
  /\ NoneSettling
  /\ pc[p] = "awaiting"
  /\ resp[p].kind \in {"non2xx", "network_error"}
  /\ pc' = [pc EXCEPT ![p] = "threw"]
  /\ call' = [call EXCEPT ![p].val = OAuthError]
  /\ failedSince' = TRUE
  /\ UNCHANGED <<cachedToken, tokenExpiry, now, resp, authRequests,
                 cachedFrom>>
  /\ UNCHANGED serverVars

(* ------------------------- environment --------------------------------- *)
CallerResumes(p) ==
  /\ pc[p] \in {"returned", "threw"}
  /\ pc' = [pc EXCEPT ![p] = "idle"]
  /\ resp' = [resp EXCEPT ![p] = NoResponse]
  /\ call' = [call EXCEPT ![p] = IdleCall]
  /\ UNCHANGED <<cachedToken, tokenExpiry, now, authRequests,
                 cachedFrom, failedSince>>
  /\ UNCHANGED serverVars

Tick ==
  /\ NoneSettling
  /\ now + TickMs <= StartMs + MaxTicks * TickMs
  /\ now' = now + TickMs
  /\ UNCHANGED <<cachedToken, tokenExpiry, pc, resp, call, authRequests, cachedFrom,
                 failedSince>>
  /\ UNCHANGED serverVars

Next ==
  \/ \E p \in Callers : GetTokenHit(p)
  \/ \E p \in Callers : GetTokenFetch(p)
  \/ \E p \in Callers : UpstreamAnswers(p)
  \/ \E p \in Callers : FetchSucceeded(p)
  \/ \E p \in Callers : FetchFailed(p)
  \/ \E p \in Callers : CallerResumes(p)
  \/ Tick

Spec == Init /\ [][Next]_vars

(* The event loop runs the continuation of every settled promise, so the   *)
(* steps of the program itself are weakly fair.  Nothing obliges a caller  *)
(* to call, the clock is bounded, and the upstream may stay silent:        *)
(* axios.post on lines 59-71 is given no timeout and axios has none by     *)
(* default, so UpstreamAnswers carries no fairness.                        *)
FairSpec ==
  /\ Spec
  /\ \A p \in Callers :
       /\ WF_vars(FetchSucceeded(p))
       /\ WF_vars(FetchFailed(p))
       /\ WF_vars(CallerResumes(p))


(* =================== POST /api/ebay/current ============================ *)
(* Handler slot p is free when pc[p] = "idle" and req[p].stage = "idle";   *)
(* while the handler is inside getOAuthToken its position is pc[p].        *)
SearchOutcomes == {"ok", "non2xx", "network_error"}

Respond(r, status, err) ==
  [r EXCEPT !.stage = "answered", !.status = status,
            !.responses = @ + 1, !.ebayError = err]

(* The values the validated field of a request body takes: absent, null,   *)
(* the empty string, a non-empty string.                                   *)
FieldValues == {Undefined, Null, EmptyStr, Str(1)}

CurrentInvalidAfterToken(p) ==
  /\ NoneSettling
  /\ glue.stage = "idle"
  /\ pc[p] = "idle"
  /\ req[p].stage = "idle"
  /\ authRequests < MaxRequests
  /\ authRequests' = authRequests + 1
  /\ \E query \in FieldValues :
       /\ ~Truthy(query)
       /\ req' = [req EXCEPT ![p] =
                    Respond([IdleRequest EXCEPT !.outcome = "invalid",
                                                !.input = query], 400,
                            Undefined)]
  /\ UNCHANGED <<cachedToken, tokenExpiry, now, pc, resp, call, cachedFrom,
                 failedSince, glue>>

CurrentInvalid(p) ==
  /\ NoneSettling
  /\ glue.stage = "idle"
  /\ pc[p] = "idle"
  /\ req[p].stage = "idle"
  /\ \E query \in FieldValues :
       /\ ~Truthy(query)
       /\ req' = [req EXCEPT ![p] =
                    Respond([IdleRequest EXCEPT !.outcome = "invalid",
                                                !.input = query], 400,
                            Undefined)]
  /\ UNCHANGED <<tokenVars, glue>>

CurrentQueryHit(p) ==
  /\ glue.stage = "idle"
  /\ req[p].stage = "idle"
  /\ \E query \in FieldValues : Truthy(query)
  /\ GetTokenHit(p)

CurrentQueryFetch(p) ==
  /\ glue.stage = "idle"
  /\ req[p].stage = "idle"
  /\ \E query \in FieldValues : Truthy(query)
  /\ GetTokenFetch(p)

CurrentSearch(p) ==
  /\ pc[p] = "returned"
  /\ pc' = [pc EXCEPT ![p] = "idle"]
  /\ resp' = [resp EXCEPT ![p] = NoResponse]
  /\ call' = [call EXCEPT ![p] = IdleCall]
  /\ req' = [req EXCEPT ![p] =
               [IdleRequest EXCEPT !.stage = "searching",
                                   !.input = Str(1),
                                   !.token = call[p].val,
                                   !.expiry = tokenExpiry,
                                   !.upstream = 1]]
  /\ UNCHANGED <<cachedToken, tokenExpiry, now, authRequests, cachedFrom,
                 failedSince, glue>>

CurrentCatchTokenSilent(p) ==
  /\ pc[p] = "threw"
  /\ pc' = [pc EXCEPT ![p] = "idle"]
  /\ resp' = [resp EXCEPT ![p] = NoResponse]
  /\ call' = [call EXCEPT ![p] = IdleCall]
  /\ req' = [req EXCEPT ![p] =
               [IdleRequest EXCEPT !.stage = "answered",
                                   !.input = Str(1),
                                   !.outcome = "token_error"]]
  /\ UNCHANGED <<cachedToken, tokenExpiry, now, authRequests, cachedFrom,
                 failedSince, glue>>

CurrentCatchToken(p) ==
  /\ pc[p] = "threw"
  /\ pc' = [pc EXCEPT ![p] = "idle"]
  /\ resp' = [resp EXCEPT ![p] = NoResponse]
  /\ call' = [call EXCEPT ![p] = IdleCall]
  /\ req' = [req EXCEPT ![p] =
               Respond([IdleRequest EXCEPT !.outcome = "token_error",
                                           !.input = Str(1)], 500,
                       ErrorResponseData(call[p].val))]
  /\ UNCHANGED <<cachedToken, tokenExpiry, now, authRequests, cachedFrom,
                 failedSince, glue>>

CurrentSearchSettles(p) ==
  /\ NoneSettling
  /\ req[p].stage = "searching"
  /\ \E o \in SearchOutcomes :
       req' = [req EXCEPT ![p] =
                 IF o = "ok"
                 THEN Respond([req[p] EXCEPT !.outcome = o], 200, Undefined)
                 ELSE Respond([req[p] EXCEPT !.outcome = o], 500,
                              IF o = "non2xx" THEN ErrorPayload ELSE Undefined)]
  /\ UNCHANGED <<tokenVars, glue>>

CurrentDone(p) ==
  /\ req[p].stage = "answered"
  /\ req' = [req EXCEPT ![p] = IdleRequest]
  /\ UNCHANGED <<tokenVars, glue>>

(* =================== endpoints that need no token ====================== *)
(* A request to one of these endpoints is taken while no request to       *)
(* /api/ebay/current is in progress, and conversely: the two kinds share   *)
(* no variable, so their interleavings are not enumerated.                 *)
GlueFree ==
  /\ NoneSettling
  /\ glue.stage = "idle"
  /\ \A q \in Callers : pc[q] = "idle" /\ req[q].stage = "idle"

GlueStart(e) == [IdleGlue EXCEPT !.endpoint = e, !.input = Str(1)]

GlueSend(g) ==
  [g EXCEPT !.stage = "awaiting", !.inflight = @ + 1, !.upstream = @ + 1]

GlueRespond(g, status, err) ==
  [g EXCEPT !.stage = "answered", !.status = status, !.responses = @ + 1,
            !.ebayError = err]

GlueSettled(g, o) == [g EXCEPT !.inflight = @ - 1, !.outcome = o]

GlueInvalid(e, v) ==
  GlueRespond([GlueStart(e) EXCEPT !.outcome = "invalid", !.input = v], 400,
              Undefined)

(* ---- POST /api/ebay/sold ---- *)
SoldInvalid ==
  /\ GlueFree
  /\ \E query \in FieldValues :
       ~Truthy(query) /\ glue' = GlueInvalid("sold", query)
  /\ UNCHANGED <<tokenVars, req>>

SoldSearchWithToken ==
  /\ GlueFree
  /\ authRequests < MaxRequests
  /\ authRequests' = authRequests + 1
  /\ glue' = GlueSend(GlueStart("sold"))
  /\ UNCHANGED <<cachedToken, tokenExpiry, now, pc, resp, call, cachedFrom,
                 failedSince, req>>

SoldSearch ==
  /\ GlueFree
  /\ glue' = GlueSend(GlueStart("sold"))
  /\ UNCHANGED <<tokenVars, req>>

SoldSettles ==
  /\ NoneSettling
  /\ glue.endpoint = "sold"
  /\ glue.stage = "awaiting"
  /\ \E o \in {"items", "empty", "non2xx", "network_error"} :
       glue' = IF o \in {"items", "empty"}
               THEN GlueRespond(GlueSettled(glue, o), 200, Undefined)
               ELSE GlueRespond(GlueSettled(glue, o), 500,
                                IF o = "non2xx" THEN ErrorPayload ELSE Undefined)
  /\ UNCHANGED <<tokenVars, req>>

(* ---- POST /api/analyze-image ---- *)
AnalyzeInvalid ==
  /\ GlueFree
  /\ \E imageData \in FieldValues :
       ~Truthy(imageData) /\ glue' = GlueInvalid("analyze-image", imageData)
  /\ UNCHANGED <<tokenVars, req>>

AnalyzeSend ==
  /\ GlueFree
  /\ glue' = GlueSend(GlueStart("analyze-image"))
  /\ UNCHANGED <<tokenVars, req>>

AnalyzeSettles ==
  /\ NoneSettling
  /\ glue.endpoint = "analyze-image"
  /\ glue.stage = "awaiting"
  /\ \E o \in {"text", "malformed", "non2xx", "network_error"} :
       glue' = GlueRespond(GlueSettled(glue, o),
                           IF o = "text" THEN 200 ELSE 500, Undefined)
  /\ UNCHANGED <<tokenVars, req>>

(* ---- POST /api/generate-listing ---- *)
GenerateInvalid ==
  /\ GlueFree
  /\ \E itemName \in FieldValues :
       ~Truthy(itemName) /\ glue' = GlueInvalid("generate-listing", itemName)
  /\ UNCHANGED <<tokenVars, req>>

GenerateSend ==
  /\ GlueFree
  /\ \E priceIsNumber \in BOOLEAN :
       glue' = IF priceIsNumber
               THEN GlueSend(GlueStart("generate-listing"))
               ELSE GlueRespond([GlueStart("generate-listing") EXCEPT
                                   !.outcome = "threw"], 500, Undefined)
  /\ UNCHANGED <<tokenVars, req>>

GenerateSettles ==
  /\ NoneSettling
  /\ glue.endpoint = "generate-listing"
  /\ glue.stage = "awaiting"
  /\ \E o \in {"text", "malformed", "non2xx", "network_error"} :
       glue' = GlueRespond(GlueSettled(glue, o),
                           IF o = "text" THEN 200 ELSE 500, Undefined)
  /\ UNCHANGED <<tokenVars, req>>

(* ---- POST /api/batch-analyze ---- *)
(* An element of images is an object or null; destructuring null on line   *)
(* 330 throws outside the per-item try and reaches the outer catch.        *)
ImageArrays ==
  UNION {[1..n -> {"object", "null"}] : n \in 1..MaxImages}

BatchInvalid ==
  /\ GlueFree
  /\ \E images \in {Undefined, Null, Arr(0)} :
       /\ ~Truthy(images) \/ images.n = 0
       /\ glue' = GlueInvalid("batch-analyze", images)
  /\ UNCHANGED <<tokenVars, req>>

BatchNextItem(g) ==
  IF g.i < Len(g.images)
  THEN IF g.images[g.i + 1] = "null"
       THEN GlueRespond([g EXCEPT !.outcome = "threw"], 500, Undefined)
       ELSE GlueSend(g)
  ELSE GlueRespond(g, 200, Undefined)

BatchStartParallel ==
  /\ GlueFree
  /\ \E imgs \in ImageArrays :
       glue' = [GlueStart("batch-analyze") EXCEPT
                  !.images = imgs, !.input = Arr(Len(imgs)),
                  !.stage = "awaiting",
                  !.inflight = Len(imgs), !.upstream = Len(imgs)]
  /\ UNCHANGED <<tokenVars, req>>

BatchStart ==
  /\ GlueFree
  /\ \E imgs \in ImageArrays :
       glue' = BatchNextItem([GlueStart("batch-analyze") EXCEPT
                                !.images = imgs, !.input = Arr(Len(imgs))])
  /\ UNCHANGED <<tokenVars, req>>

BatchItemSettles ==
  /\ NoneSettling
  /\ glue.endpoint = "batch-analyze"
  /\ glue.stage = "awaiting"
  /\ \E ok \in BOOLEAN :
       glue' = BatchNextItem(
                 [GlueSettled(glue, IF ok THEN "text" ELSE "failed") EXCEPT
                    !.results = Append(@, [index |-> glue.i, success |-> ok]),
                    !.i = @ + 1])
  /\ UNCHANGED <<tokenVars, req>>

GlueDone ==
  /\ glue.stage = "answered"
  /\ glue' = IdleGlue
  /\ UNCHANGED <<tokenVars, req>>

(* ServerSpec follows the request handlers at one reading of the clock.    *)
(* The passing of time only changes the outcome of the test on line 47,    *)
(* which Spec covers; here both outcomes occur through lifetimes of 300 s  *)
(* (expired when stored) and 500 s.                                        *)
ServerNext ==
  \/ \E p \in Callers : CurrentInvalid(p)
  \/ \E p \in Callers : CurrentQueryHit(p)
  \/ \E p \in Callers : CurrentQueryFetch(p)
  \/ \E p \in Callers : UpstreamAnswers(p)
  \/ \E p \in Callers : FetchSucceeded(p)
  \/ \E p \in Callers : FetchFailed(p)
  \/ \E p \in Callers : CurrentSearch(p)
  \/ \E p \in Callers : CurrentCatchToken(p)
  \/ \E p \in Callers : CurrentSearchSettles(p)
  \/ \E p \in Callers : CurrentDone(p)
  \/ SoldInvalid
  \/ SoldSearch
  \/ SoldSettles
  \/ AnalyzeInvalid
  \/ AnalyzeSend
  \/ AnalyzeSettles
  \/ GenerateInvalid
  \/ GenerateSend
  \/ GenerateSettles
  \/ BatchInvalid
  \/ BatchStart
  \/ BatchItemSettles
  \/ GlueDone

ServerSpec == Init /\ [][ServerNext]_vars

(* ======================= properties of the token cache ================= *)
Entering(p) == pc[p] = "idle" /\ pc'[p] # "idle"

FailureKinds == {"non2xx", "network_error"}

WellFormed(r) ==
  r.access_token.type = "string" /\ r.expires_in.type = "number"

(* C1: every successful return of getOAuthToken, by cache hit or by fresh  *)
(* fetch and for every upstream lifetime, leaves a stored tokenExpiry that *)
(* is a number strictly later than the instant of return.                  *)
NeverHandsOutExpired ==
  \A p \in Callers :
    pc[p] = "returned" => tokenExpiry.type = "number" /\ tokenExpiry.n > now

(* C2: a call entered while a token is cached and now is strictly before   *)
(* tokenExpiry returns exactly the cached token, sends no authentication   *)
(* request and leaves cachedToken and tokenExpiry unchanged.               *)
CacheHitPath ==
  [][\A p \in Callers :
       (/\ Entering(p)
        /\ cachedToken.type = "string"
        /\ tokenExpiry.type = "number"
        /\ now < tokenExpiry.n)
       => (/\ pc'[p] = "returned"
           /\ call'[p].val = cachedToken
           /\ call'[p].sent = 0
           /\ authRequests' = authRequests
           /\ cachedToken' = cachedToken
           /\ tokenExpiry' = tokenExpiry)]_vars

CacheHitPathWitness ==
  \E p \in Callers :
    /\ pc[p] = "returned"
    /\ call[p].hit
    /\ call[p].val.type = "string"
    /\ authRequests = 1

(* C3: calls that overlap on a cache miss share one authentication         *)
(* request: the requests awaited at any instant are at most one.           *)
ConcurrentMissCollapse ==
  Cardinality({call[p].reqId : p \in {q \in Callers : pc[q] = "awaiting"}}) <= 1

(* C4: a call whose authentication request fails (network error or non-2xx *)
(* response) raises the error, and neither its entry step nor its failure  *)
(* step changes cachedToken or tokenExpiry.                                *)
FailedFetchLeavesCache ==
  [][\A p \in Callers :
       /\ (Entering(p) /\ pc'[p] = "awaiting")
            => (cachedToken' = cachedToken /\ tokenExpiry' = tokenExpiry)
       /\ (pc[p] = "awaiting" /\ resp[p].kind \in FailureKinds
             /\ pc'[p] # "awaiting")
            => (/\ pc'[p] = "threw"
                /\ call'[p].val = OAuthError
                /\ cachedToken' = cachedToken
                /\ tokenExpiry' = tokenExpiry)]_vars

FailedFetchLeavesCacheWitness ==
  \E p \in Callers :
    /\ pc[p] = "threw"
    /\ resp[p].kind \in FailureKinds
    /\ cachedToken.type = "string"
    /\ tokenExpiry.type = "number"
    /\ tokenExpiry.n <= now

(* C5: a 2xx answer whose body lacks access_token or lacks expires_in      *)
(* makes getOAuthToken raise an error and return no token.                 *)
MalformedSuccessIsError ==
  \A p \in Callers :
    (/\ pc[p] \in {"returned", "threw"}
     /\ resp[p].kind = "2xx"
     /\ ~WellFormed(resp[p]))
    => (pc[p] = "threw" /\ call[p].val = OAuthError)

(* C6: every returned token stays valid upstream (until issuance instant   *)
(* plus expires_in) for at least 300 seconds after the instant of return.  *)
ResultGuarantee ==
  \A p \in Callers :
    (pc[p] = "returned" /\ WellFormed(cachedFrom))
    => cachedFrom.issuedAt + cachedFrom.expires_in.n * 1000 >= now + 300 * 1000

(* C7: after a successful fetch processed at t0 with lifetime L, and no    *)
(* other fetch stored since, a call entered at t is a cache hit without an *)
(* upstream call iff t < t0 + (L - 300) s; otherwise it sends exactly one  *)
(* new authentication request.                                             *)
ExpiryBoundary ==
  [][\A p \in Callers :
       (Entering(p) /\ cachedFrom.written /\ WellFormed(cachedFrom))
       => LET limit == cachedFrom.t0 + (cachedFrom.expires_in.n - 300) * 1000
          IN  /\ now < limit
                   => (pc'[p] = "returned" /\ authRequests' = authRequests)
              /\ now >= limit
                   => (pc'[p] = "awaiting" /\ authRequests' = authRequests + 1)]_vars

ExpiryBoundaryWitness ==
  \E p \in Callers :
    /\ pc[p] = "awaiting"
    /\ cachedFrom.written
    /\ WellFormed(cachedFrom)
    /\ cachedFrom.expires_in.n > 300
    /\ now >= cachedFrom.t0 + (cachedFrom.expires_in.n - 300) * 1000

(* C8: a fetch answered with an access token and lifetime L stores that    *)
(* token, sets tokenExpiry to exactly the processing instant plus          *)
(* (L - 300) seconds, and returns the stored token.  In a state with       *)
(* pc[p] = "returned", now is the instant the response was processed and   *)
(* the cache fields are the ones the call stored.                          *)
ExpiryComputation ==
  \A p \in Callers :
    (pc[p] = "returned" /\ ~call[p].hit /\ WellFormed(resp[p]))
    => (/\ cachedToken = resp[p].access_token
        /\ tokenExpiry = Num(now + (resp[p].expires_in.n - 300) * 1000)
        /\ call[p].val = cachedToken)

ExpiryComputationWitness ==
  \E p \in Callers :
    /\ pc[p] = "returned"
    /\ ~call[p].hit
    /\ WellFormed(resp[p])
    /\ resp[p].expires_in.n > 300
    /\ resp[p].issuedAt < now

(* C9: in every reachable state, a present cached token comes with a       *)
(* present tokenExpiry that is a defined instant.                          *)
CachePairInvariant ==
  cachedToken.type = "string" => tokenExpiry.type = "number"

(* C10: an invocation sends at most one authentication request, none on    *)
(* the hit path, and a failed request ends the invocation with the error   *)
(* without any further request.                                            *)
AtMostOneRequestPerCall ==
  [][/\ authRequests' # authRequests
          => (/\ authRequests' = authRequests + 1
              /\ \E p \in Callers :
                   Entering(p) /\ pc'[p] = "awaiting" /\ call'[p].sent = 1)
     /\ \A p \in Callers :
          /\ call'[p].sent <= 1
          /\ (Entering(p) /\ pc'[p] = "returned")
               => (authRequests' = authRequests /\ call'[p].sent = 0)
          /\ (/\ pc[p] = "awaiting"
              /\ resp[p].kind \in FailureKinds
              /\ <<pc'[p], resp'[p], call'[p]>> # <<pc[p], resp[p], call[p]>>)
               => (/\ pc'[p] = "threw"
                   /\ call'[p].val = OAuthError
                   /\ authRequests' = authRequests)]_vars

AtMostOneRequestPerCallWitness ==
  \E p \in Callers :
    /\ pc[p] = "threw"
    /\ call[p].sent = 1
    /\ authRequests >= 2

StoredExpired ==
  \/ ~cachedFrom.written
  \/ ~WellFormed(cachedFrom)
  \/ now >= cachedFrom.t0 + (cachedFrom.expires_in.n - 300) * 1000

CausalVisibility ==
  [][\A p \in Callers :
       (Entering(p) /\ ~StoredExpired)
       => (/\ pc'[p] = "returned"
           /\ call'[p].hit
           /\ call'[p].val = cachedFrom.access_token
           /\ authRequests' = authRequests)]_vars

CausalVisibilityWitness ==
  \E p \in Callers :
    \E q \in Callers \ {p} :
      /\ pc[p] = "returned"
      /\ call[p].hit
      /\ call[p].val = cachedFrom.access_token
      /\ pc[q] = "awaiting"

(* C13: every invocation that is awaiting its authentication request       *)
(* eventually completes, by returning or raising, also when the upstream   *)
(* never answers.                                                          *)
EveryCallCompletes ==
  \A p \in Callers : (pc[p] = "awaiting") ~> (pc[p] \in {"returned", "threw"})

(* C14: when the authentication request fails with an upstream error       *)
(* payload, the error raised by getOAuthToken carries that payload.        *)
ErrorCarriesPayload ==
  \A p \in Callers :
    (pc[p] = "threw" /\ UpstreamErrorData(resp[p]) # Undefined)
    => ErrorResponseData(call[p].val) = UpstreamErrorData(resp[p])

(* C20: in every reachable state the cached token and the cached expiry    *)
(* come from the same upstream response, the one stored last, and a        *)
(* fetching call returns the access token of its own response.             *)
NoTornCredential ==
  /\ ~cachedFrom.written => (cachedToken = Null /\ tokenExpiry = Null)
  /\ cachedFrom.written
       => /\ cachedToken = cachedFrom.access_token
          /\ tokenExpiry =
               IF cachedFrom.expires_in.type = "number"
               THEN Num(cachedFrom.t0 + (cachedFrom.expires_in.n - 300) * 1000)
               ELSE NaN
  /\ \A p \in Callers :
       (pc[p] = "returned" /\ ~call[p].hit)
       => call[p].val = resp[p].access_token

NoTornCredentialWitness ==
  \E p \in Callers :
    \E q \in Callers \ {p} :
      /\ pc[p] = "returned"
      /\ ~call[p].hit
      /\ pc[q] = "awaiting"
      /\ resp[q] # NoResponse
      /\ call[q].reqId < call[p].reqId
      /\ cachedFrom.written
      /\ cachedToken = Str(call[p].reqId)

(* ------------------------ the request handlers ------------------------ *)
Failures == {"token_error", "non2xx", "network_error", "malformed", "threw"}

(* The token a handler of /api/ebay/current is searching with is one the   *)
(* cache's expiry test still accepts: a string with a moment of expiry     *)
(* that lies ahead.                                                        *)
InUse(p) ==
  /\ req[p].stage = "searching"
  /\ req[p].token.type = "string"
  /\ req[p].expiry.type = "number"
  /\ now < req[p].expiry.n

(* C15: the process holds one cached token and one expiry, and no two      *)
(* handlers are ever searching at the same time with two different tokens  *)
(* that are both unexpired.                                                *)
SingleSharedCredential ==
  \A p \in Callers :
    \A q \in Callers :
      (InUse(p) /\ InUse(q)) => req[p].token = req[q].token

(* C16: a batch request with a non-empty array is answered 200 with one    *)
(* result per input image, each tagged with its zero-based index, in       *)
(* input order.                                                            *)
BatchOneResultPerInput ==
  (/\ glue.endpoint = "batch-analyze"
   /\ glue.stage = "answered"
   /\ Len(glue.images) > 0)
  => /\ glue.status = 200
     /\ Len(glue.results) = Len(glue.images)
     /\ \A k \in 1..Len(glue.results) : glue.results[k].index = k - 1

(* C17: a batch request has at most one upstream call in flight, and the   *)
(* calls it has issued are the ones that completed plus the one in flight: *)
(* the call for an item is issued only after the call before it completed. *)
BatchSequential ==
  glue.endpoint = "batch-analyze"
  => /\ glue.inflight \in {0, 1}
     /\ glue.upstream = Len(glue.results) + glue.inflight
     /\ glue.stage = "awaiting" => glue.inflight = 1

BatchSequentialWitness ==
  /\ glue.endpoint = "batch-analyze"
  /\ glue.stage = "awaiting"
  /\ Len(glue.images) = MaxImages
  /\ Len(glue.results) = MaxImages - 1
  /\ ~glue.results[1].success

(* C18: a handler that has run to its end has responded exactly once, one  *)
(* that has not has not responded, and an upstream failure that ends the   *)
(* request is answered with status 500.                                    *)
AnsweredOnce(r) ==
  /\ r.responses = (IF r.stage = "answered" THEN 1 ELSE 0)
  /\ r.stage = "answered"
       => /\ r.status \in {200, 400, 500}
          /\ r.outcome \in Failures => r.status = 500
          /\ r.outcome = "invalid" => (r.status = 400 /\ r.upstream = 0)

EveryRequestAnsweredOnce ==
  /\ \A p \in Callers : AnsweredOnce(req[p])
  /\ AnsweredOnce(glue)

EveryRequestAnsweredOnceWitness ==
  \E p \in Callers :
    \E q \in Callers \ {p} :
      /\ req[p].stage = "answered"
      /\ req[p].outcome = "token_error"
      /\ req[p].status = 500
      /\ req[p].responses = 1
      /\ req[q].stage = "searching"

(* C19: no step of a request to /api/ebay/sold reads or writes the token   *)
(* cache or sends a request to the identity endpoint.                      *)
SoldNeedsNoToken ==
  [][((glue.endpoint = "sold" \/ glue'.endpoint = "sold") /\ glue' # glue)
       => UNCHANGED <<cachedToken, tokenExpiry, authRequests, pc, resp, call,
                      cachedFrom, failedSince>>]_vars

SoldNeedsNoTokenWitness ==
  /\ glue.endpoint = "sold"
  /\ glue.stage = "answered"
  /\ glue.status = 200
  /\ glue.upstream = 1
  /\ ~Truthy(cachedToken)
  /\ authRequests = 0

(* The validation test of a handler rejects the value of its field: a      *)
(* falsy value, or for batch-analyze an empty array.                       *)
Rejected(v) == ~Truthy(v) \/ (v.type = "array" /\ v.n = 0)

(* C21: a request whose validated field is missing or empty is answered    *)
(* 400 in the step that takes it, with no upstream request sent, no call   *)
(* of getOAuthToken started and the token cache unchanged.                 *)
ValidationPrecedesUpstream ==
  [][/\ \A p \in Callers :
          (req[p].stage = "idle" /\ req'[p].stage # "idle"
             /\ Rejected(req'[p].input))
          => /\ req'[p].stage = "answered"
             /\ req'[p].status = 400
             /\ req'[p].responses = 1
             /\ req'[p].upstream = 0
             /\ UNCHANGED <<cachedToken, tokenExpiry, authRequests, pc, resp,
                            call>>
     /\ (glue.stage = "idle" /\ glue'.stage # "idle" /\ Rejected(glue'.input))
          => /\ glue'.stage = "answered"
             /\ glue'.status = 400
             /\ glue'.responses = 1
             /\ glue'.upstream = 0
             /\ glue'.inflight = 0
             /\ UNCHANGED <<cachedToken, tokenExpiry, authRequests, pc, resp,
                            call>>]_vars

ValidationPrecedesUpstreamWitness ==
  \E p \in Callers :
    \E q \in Callers \ {p} :
      /\ req[p].stage = "answered"
      /\ req[p].input = EmptyStr
      /\ req[p].status = 400
      /\ pc[q] = "awaiting"
      /\ ~Truthy(cachedToken)
      /\ authRequests = 1
====
